---- MODULE Spec2Model ----
(***************************************************************************)
(* State-machine model of the compute shader subsystem of                 *)
(* bevy_pixel_buffer (src/src/compute_shader.rs): the plugin registration, *)
(* the per-frame stages cs_extract -> prepare_images / prepare_shaders ->  *)
(* cs_queue_bind_group, and the render graph node ComputeShaderNode        *)
(* (update / run).                                                         *)
(*                                                                         *)
(* The host engine (asset stores, GPU image store, pipeline cache, the     *)
(* derive-generated as_bind_group) is the environment: its state is kept   *)
(* in variables that only environment actions change.                      *)
(***************************************************************************)
EXTENDS Integers, Sequences, FiniteSets, TLC

\* ------------------------------------------------------------------ bounds

\* events of one kind the main world emits between two extractions
MaxEvents == 2
\* image events the main world emits between two extractions
MaxImageEvents == 1
\* cap on the length of the transient-failure retry queue
MaxQueue == 2

\* identities the environment draws from
Entities == {"e1", "e2"}
ImageIds == {"A", "B"}
ShaderIds == {"x", "y"}
\* GPU images the host can hold for a target: a texture view and its size
Sizes == {<<256, 256>>, <<20, 12>>}
\* user shader asset values: one that always binds, one that needs a GPU
\* image still loading, one with an unsupported sampler type
ShaderValues == {"plain", "dep", "bad"}

None == "none"

VARIABLES
    \* ---- main world (environment)
    attached,        \* PixelBuffer entities: entity -> [image, shader]
    shader_assets,   \* Assets<S>: shader id -> value
    shader_events,   \* AssetEvent<S> not yet read by cs_extract
    image_events,    \* AssetEvent<Image> not yet read by cs_extract
    \* ---- host render side (environment)
    images,          \* RenderAssets<GpuImage>: image id -> GpuImage
    dep_ready,       \* whether the GPU image a "dep" shader value binds is uploaded
    pipeline_state,  \* CachedPipelineState of pipeline.pipeline_id
    \* ---- render world of the registered shader type
    buffers,             \* entities inserted by cs_extract: set of [entity, image, shader]
    extracted_shaders,   \* ExtractedShaders<S>: [extracted, removed]
    invalidated_images,  \* InvalidatedImages<S>.invalid
    prepared_images,     \* PreparedImages<S>: image id -> PreparedImage
    prepared_shaders,    \* PreparedShaders<S>: shader id -> PreparedShader
    prepare_next_frame,  \* Local<PrepareNextFrameShaders<S>>.assets
    shader_queue,        \* ComputeShaderQueue<S>
    graph_nodes,         \* RenderGraph nodes: label -> ComputeShaderNode
    \* ---- application setup
    app,                 \* what the plugins have installed so far
    \* ---- control and observation
    phase,           \* position in the frame
    done,            \* the Prepare systems that ran in this frame
    calls,           \* what the frame's systems did: a fake backend's record
    history          \* what happened in earlier frames, for stating the properties:
                     \*   attached: the images ever attached with a shader handle
                     \*   failed: the shader ids whose latest extracted snapshot
                     \*           failed to bind with InvalidSamplerType

vars == << attached, shader_assets, shader_events, image_events, images, dep_ready,
           pipeline_state, buffers, extracted_shaders, invalidated_images,
           prepared_images, prepared_shaders, prepare_next_frame, shader_queue,
           graph_nodes, app, phase, done, calls, history >>

envVars == << attached, shader_assets, shader_events, image_events, images, dep_ready,
              pipeline_state, history >>
renderVars == << buffers, extracted_shaders, invalidated_images, prepared_images,
                 prepared_shaders, prepare_next_frame, shader_queue >>

\* ------------------------------------------------------------------ helpers

Range(s) == {s[i] : i \in DOMAIN s}
Restrict(f, S) == [k \in (DOMAIN f) \cap S |-> f[k]]
\* HashMap::insert
Insert(f, k, v) == [x \in (DOMAIN f) \cup {k} |-> IF x = k THEN v ELSE f[x]]
EmptyMap == [k \in {} |-> None]
\* the orders in which a HashSet can be drained
Orders(S) == {s \in [1..Cardinality(S) -> S] : \A i, j \in DOMAIN s : i # j => s[i] # s[j]}
\* the order in which a Query visits the entities
EntityOrder == <<"e1", "e2">>

\* ------------------------------------------------------------------ the shader type

\* a workgroup count rounded up to cover the whole texture
workgroupsRoundedUp(texture_size) ==
    <<(texture_size[1] + 7) \div 8, (texture_size[2] + 7) \div 8>>

\* ComputeShader::workgroups of the documented example: texture_size / 8
workgroups(texture_size) == <<texture_size[1] \div 8, texture_size[2] \div 8>>

\* AsBindGroup::as_bind_group of a shader value against the GPU images
as_bind_group(shader, ready) ==
    IF shader = "bad" THEN [tag |-> "InvalidSamplerType"]
    ELSE IF shader = "dep" /\ ~ready THEN [tag |-> "RetryNextUpdate"]
    ELSE [tag |-> "Ok", bind_group |-> <<"user", shader>>]

prepare_shader(shader, ready) ==
    LET prepared == as_bind_group(shader, ready) IN
    IF prepared.tag = "Ok"
    THEN [tag |-> "Ok", prepared |-> [user_bind_group |-> prepared.bind_group]]
    ELSE prepared

\* ------------------------------------------------------------------ cs_extract

ChangedKinds == {"Added", "Modified", "LoadedWithDependencies"}
RemovedKinds == {"Removed", "Unused"}
EventKinds == ChangedKinds \cup RemovedKinds
InvalidatingKinds == {"Added", "Modified", "Removed", "LoadedWithDependencies"}

\* a Removed / Unused arm that forgets to record the removal
ReadShaderEventNoRemovedList(event, read) ==
    IF event.kind \in ChangedKinds
    THEN [read EXCEPT !.changed = @ \cup {event.id}]
    ELSE [read EXCEPT !.changed = @ \ {event.id}]

\* the match on one shader event: `read` is [changed, removed]
ReadShaderEvent(event, read) ==
    IF event.kind \in ChangedKinds
    THEN [read EXCEPT !.changed = @ \cup {event.id}]
    ELSE [read EXCEPT !.changed = @ \ {event.id}, !.removed = Append(@, event.id)]

\* the loop over shader_events.read(): the changed set and the removed list
RECURSIVE ReadShaderEvents(_, _, _)
ReadShaderEvents(events, changed, removed) ==
    IF events = <<>> THEN [changed |-> changed, removed |-> removed]
    ELSE LET read == ReadShaderEvent(Head(events), [changed |-> changed, removed |-> removed])
         IN ReadShaderEvents(Tail(events), read.changed, read.removed)

\* an extraction that drops the changed assets
ExtractChangedNothing(order, assets) == <<>>

\* the loop over changed.drain(), in the order `order` the set is drained
ExtractChanged(order, assets) ==
    LET kept == SelectSeq(order, LAMBDA id : id \in DOMAIN assets) IN
    [i \in DOMAIN kept |-> <<kept[i], assets[kept[i]]>>]

\* a loop over the image events without the guard on buffer_images
ReadImageEventsOfAnyImage(events, buffer_images) ==
    {event.id : event \in {ev \in Range(events) : ev.kind \in InvalidatingKinds}}

\* the loop over image_events.read()
ReadImageEvents(events, buffer_images) ==
    {event.id : event \in {ev \in Range(events) :
        ev.kind \in InvalidatingKinds /\ ev.id \in buffer_images}}

ExtractBuffers(att) ==
    {[entity |-> e, image |-> att[e].image, shader |-> att[e].shader] :
        e \in DOMAIN att}

BufferImages(bufs) == {b.image : b \in bufs}

\* the record of one frame: the events cs_extract read, the texture entries
\* evicted and built, the shader binding attempts and the errors logged, and
\* what run dispatched, logged and returned
NoCalls == [shader_events |-> <<>>, image_events |-> <<>>, evicted |-> {}, built |-> {},
            attempts |-> <<>>, errors |-> 0, dispatched |-> <<>>, run_errors |-> 0,
            run |-> None]

cs_extract ==
    /\ phase = "Main"
    /\ LET read == ReadShaderEvents(shader_events, {}, <<>>)
           bufs == ExtractBuffers(attached)
       IN /\ buffers' = bufs
          /\ \E order \in Orders(read.changed) :
                extracted_shaders' = [extracted |-> ExtractChanged(order, shader_assets),
                                      removed |-> read.removed]
          /\ invalidated_images' = ReadImageEvents(image_events, BufferImages(bufs))
    /\ shader_events' = <<>>
    /\ image_events' = <<>>
    /\ phase' = "Prepare"
    /\ calls' = [calls EXCEPT !.shader_events = shader_events,
                              !.image_events = image_events]
    /\ history' = [history EXCEPT
          !.failed = @ \ ReadShaderEvents(shader_events, {}, <<>>).changed]
    /\ UNCHANGED << attached, shader_assets, images, dep_ready, pipeline_state,
                    prepared_images, prepared_shaders, prepare_next_frame, shader_queue,
                    graph_nodes, app, done >>

\* ------------------------------------------------------------------ prepare_images

PreparedImage(view) ==
    [texture_bind_group |-> <<"texture", view.texture_view>>, size |-> view.size]

\* a texture pass that does not evict the invalidated entries
RemoveInvalidKeepsAll(prepared, invalid) == prepared

\* prepared_images.retain(|id, _| !invalid_images.invalid.contains(id))
RemoveInvalid(prepared, invalid) == Restrict(prepared, (DOMAIN prepared) \ invalid)

\* a loop over every resolvable GPU image instead of the buffers' images
MissingOfAnyImage(prepared, buffer_images, gpu_images) ==
    {id \in DOMAIN gpu_images : id \notin DOMAIN prepared}

\* the images the loop over the buffers prepares: not prepared, and resolvable
Missing(prepared, buffer_images, gpu_images) ==
    {id \in buffer_images : id \notin DOMAIN prepared /\ id \in DOMAIN gpu_images}

\* a loop that builds the bind group of every resolvable image of the buffers
PrepareMissingRebuilds(prepared, buffer_images, gpu_images) ==
    [id \in (DOMAIN prepared) \cup (buffer_images \cap DOMAIN gpu_images) |->
        IF id \in buffer_images \cap DOMAIN gpu_images
        THEN PreparedImage(gpu_images[id]) ELSE prepared[id]]

\* the loop over the buffers
PrepareMissing(prepared, buffer_images, gpu_images) ==
    [id \in (DOMAIN prepared) \cup Missing(prepared, buffer_images, gpu_images) |->
        IF id \in DOMAIN prepared THEN prepared[id] ELSE PreparedImage(gpu_images[id])]

\* remove untracked images
RemoveUntracked(prepared, buffer_images) ==
    IF Cardinality(DOMAIN prepared) # Cardinality(buffer_images)
    THEN Restrict(prepared, buffer_images)
    ELSE prepared

\* a texture pass that also takes the extracted shaders
prepare_images_takes_extracted ==
    /\ phase = "Prepare"
    /\ "images" \notin done
    /\ LET buffer_images == BufferImages(buffers)
           valid == RemoveInvalid(prepared_images, invalidated_images)
           filled == PrepareMissing(valid, buffer_images, images)
       IN /\ prepared_images' = RemoveUntracked(filled, buffer_images)
          /\ calls' = [calls EXCEPT
                !.evicted = (DOMAIN prepared_images) \ (DOMAIN valid),
                !.built = Missing(valid, buffer_images, images)]
    /\ extracted_shaders' = [extracted |-> <<>>, removed |-> <<>>]
    /\ done' = done \cup {"images"}
    /\ UNCHANGED << envVars, buffers, invalidated_images,
                    prepared_shaders, prepare_next_frame, shader_queue, graph_nodes,
                    app, phase >>

prepare_images ==
    /\ phase = "Prepare"
    /\ "images" \notin done
    /\ LET buffer_images == BufferImages(buffers)
           valid == RemoveInvalid(prepared_images, invalidated_images)
           filled == PrepareMissing(valid, buffer_images, images)
       IN /\ prepared_images' = RemoveUntracked(filled, buffer_images)
          /\ calls' = [calls EXCEPT
                !.evicted = (DOMAIN prepared_images) \ (DOMAIN valid),
                !.built = Missing(valid, buffer_images, images)]
    /\ done' = done \cup {"images"}
    /\ UNCHANGED << envVars, buffers, extracted_shaders, invalidated_images,
                    prepared_shaders, prepare_next_frame, shader_queue, graph_nodes,
                    app, phase >>

\* ------------------------------------------------------------------ prepare_shaders

\* a loop body that drops an asset whose binding asks for a retry
PrepareOneDropsRetry(handle_id, shader, from, ready, st) ==
    LET got == prepare_shader(shader, ready)
        att == Append(st.attempts, [id |-> handle_id, shader |-> shader,
                                    from |-> from, result |-> got.tag])
    IN CASE got.tag = "Ok" ->
              [st EXCEPT !.materials = Insert(@, handle_id, got.prepared),
                         !.attempts = att]
         [] got.tag = "InvalidSamplerType" ->
              [st EXCEPT !.errors = @ + 1, !.attempts = att]
         [] got.tag = "RetryNextUpdate" ->
              [st EXCEPT !.attempts = att]

\* the body of the two loops over (handle_id, shader) pairs: the match on
\* prepare_shader's result. `st` is [materials, next, attempts, errors]:
\* render_materials, prepare_next_frame.assets, and the record of the attempts
\* and of the errors logged.
PrepareOne(handle_id, shader, from, ready, st) ==
    LET got == prepare_shader(shader, ready)
        att == Append(st.attempts, [id |-> handle_id, shader |-> shader,
                                    from |-> from, result |-> got.tag])
    IN CASE got.tag = "Ok" ->
              [st EXCEPT !.materials = Insert(@, handle_id, got.prepared),
                         !.attempts = att]
         [] got.tag = "InvalidSamplerType" ->
              [st EXCEPT !.errors = @ + 1, !.attempts = att]
         [] got.tag = "RetryNextUpdate" ->
              [st EXCEPT !.next = Append(@, <<handle_id, shader>>),
                         !.attempts = att]

\* one of the two loops: over the queued assets, or over the extracted ones
RECURSIVE PrepareEach(_, _, _, _)
PrepareEach(assets, from, ready, st) ==
    IF assets = <<>> THEN st
    ELSE PrepareEach(Tail(assets), from, ready,
                     PrepareOne(Head(assets)[1], Head(assets)[2], from, ready, st))

\* a pass that clears the whole map when it handles the removals
RemoveAllClears(materials, removed) == EmptyMap

\* for removed in take(&mut extracted_assets.removed)
RemoveAll(materials, removed) == Restrict(materials, (DOMAIN materials) \ Range(removed))

\* a pass that binds the extracted assets before it re-attempts the queue
PrepareShadersExtractedFirst(queued, ext, materials, ready) ==
    LET start == [materials |-> materials, next |-> <<>>, attempts |-> <<>>, errors |-> 0]
        fresh == PrepareEach(ext.extracted, "extracted", ready, start)
        cleared == [fresh EXCEPT !.materials = RemoveAll(@, ext.removed)]
    IN PrepareEach(queued, "queued", ready, cleared)

\* a pass that takes the old queue and never re-attempts it
PrepareShadersForgetsQueue(queued, ext, materials, ready) ==
    LET start == [materials |-> RemoveAll(materials, ext.removed), next |-> <<>>,
                  attempts |-> <<>>, errors |-> 0]
    IN PrepareEach(ext.extracted, "extracted", ready, start)

PrepareShaders(queued, ext, materials, ready) ==
    LET start == [materials |-> materials, next |-> <<>>, attempts |-> <<>>, errors |-> 0]
        retried == PrepareEach(queued, "queued", ready, start)
        cleared == [retried EXCEPT !.materials = RemoveAll(@, ext.removed)]
    IN PrepareEach(ext.extracted, "extracted", ready, cleared)

prepare_shaders ==
    /\ phase = "Prepare"
    /\ "shaders" \notin done
    /\ LET st == PrepareShaders(prepare_next_frame, extracted_shaders, prepared_shaders,
                                dep_ready)
       IN /\ prepared_shaders' = st.materials
          /\ prepare_next_frame' = st.next
          /\ calls' = [calls EXCEPT !.attempts = st.attempts, !.errors = st.errors]
          /\ history' = [history EXCEPT !.failed = @ \cup
                {a.id : a \in {x \in Range(st.attempts) : x.result = "InvalidSamplerType"}}]
    /\ extracted_shaders' = [extracted |-> <<>>, removed |-> <<>>]
    /\ done' = done \cup {"shaders"}
    /\ UNCHANGED << attached, shader_assets, shader_events, image_events, images,
                    dep_ready, pipeline_state, buffers, invalidated_images,
                    prepared_images, shader_queue, graph_nodes, app, phase >>

\* ------------------------------------------------------------------ cs_queue_bind_group

\* a loop body that queues a buffer as soon as its shader is prepared
QueueOneShaderOnly(b, p_images, p_shaders) ==
    IF b.shader \in DOMAIN p_shaders
    THEN << [texture_bind_group |->
                IF b.image \in DOMAIN p_images
                THEN p_images[b.image].texture_bind_group ELSE <<"texture", None>>,
             user_bind_group |-> p_shaders[b.shader].user_bind_group,
             workgroups |->
                IF b.image \in DOMAIN p_images
                THEN workgroups(p_images[b.image].size) ELSE <<0, 0>>] >>
    ELSE <<>>

\* the body of the loop over the buffers: the entry pushed for one buffer, if any
QueueOne(b, p_images, p_shaders) ==
    IF b.image \in DOMAIN p_images /\ b.shader \in DOMAIN p_shaders
    THEN << [texture_bind_group |-> p_images[b.image].texture_bind_group,
             user_bind_group |-> p_shaders[b.shader].user_bind_group,
             workgroups |-> workgroups(p_images[b.image].size)] >>
    ELSE <<>>

\* the loop over the buffers, in the order the query visits the entities
RECURSIVE QueueEach(_, _, _, _)
QueueEach(entities, bufs, p_images, p_shaders) ==
    IF entities = <<>> THEN <<>>
    ELSE LET here == {b \in bufs : b.entity = Head(entities)}
             rest == QueueEach(Tail(entities), bufs, p_images, p_shaders)
         IN IF here = {} THEN rest
            ELSE QueueOne(CHOOSE b \in here : TRUE, p_images, p_shaders) \o rest

cs_queue_bind_group ==
    /\ phase = "Prepare"
    /\ done = {"images", "shaders"}
    /\ shader_queue' = QueueEach(EntityOrder, buffers, prepared_images, prepared_shaders)
    /\ phase' = "Update"
    /\ UNCHANGED << envVars, buffers, extracted_shaders, invalidated_images,
                    prepared_images, prepared_shaders, prepare_next_frame, graph_nodes,
                    app, done, calls >>

\* ------------------------------------------------------------------ ComputeShaderNode

\* a node that follows the pipeline cache in both directions
NodeUpdateFollowsCache(state, cached) == IF cached = "Ok" THEN "Update" ELSE "Loading"

\* ComputeShaderNode::update: the node's next state
NodeUpdate(state, cached) ==
    IF state = "Loading"
    THEN (IF cached = "Ok" THEN "Update" ELSE "Loading")
    ELSE state

update ==
    /\ phase = "Update"
    /\ graph_nodes' = [l \in DOMAIN graph_nodes |->
            [graph_nodes[l] EXCEPT !.state = NodeUpdate(@, pipeline_state)]]
    /\ phase' = "Run"
    /\ UNCHANGED << envVars, renderVars, app, done, calls >>

\* the loop of run over the queue: [dispatched, errors]
RECURSIVE RunEach(_, _, _)
RunEach(queue, cached, st) ==
    IF queue = <<>> THEN st
    ELSE LET shader == Head(queue) IN
         RunEach(Tail(queue), cached,
            IF cached = "Ok"
            THEN [st EXCEPT !.dispatched = Append(@,
                    [texture_bind_group |-> shader.texture_bind_group,
                     user_bind_group |-> shader.user_bind_group,
                     workgroups |-> <<shader.workgroups[1], shader.workgroups[2], 1>>])]
            ELSE [st EXCEPT !.errors = @ + 1])

\* a run without the early return for the Loading state
NodeRunAlways(state, queue, cached) ==
    RunEach(queue, cached, [dispatched |-> <<>>, errors |-> 0])

\* a run that gives up at the first entry whose pipeline is not retrievable
NodeRunStopsAtError(state, queue, cached) ==
    IF state = "Loading"
    THEN [dispatched |-> <<>>, errors |-> 0]
    ELSE IF cached = "Ok"
         THEN RunEach(queue, cached, [dispatched |-> <<>>, errors |-> 0])
         ELSE [dispatched |-> <<>>, errors |-> IF queue = <<>> THEN 0 ELSE 1]

\* ComputeShaderNode::run: [dispatched, errors] of one call
NodeRun(state, queue, cached) ==
    IF state = "Loading"
    THEN [dispatched |-> <<>>, errors |-> 0]
    ELSE RunEach(queue, cached, [dispatched |-> <<>>, errors |-> 0])

run ==
    /\ phase = "Run"
    /\ \E l \in DOMAIN graph_nodes :
         LET ran == NodeRun(graph_nodes[l].state, shader_queue, pipeline_state) IN
         calls' = [calls EXCEPT !.dispatched = ran.dispatched,
                                !.run_errors = ran.errors,
                                !.run = "Ok"]
    /\ phase' = "End"
    /\ UNCHANGED << envVars, renderVars, graph_nodes, app, done >>

\* the host ends the render frame: the render world's entities are cleared
\* (cs_extract inserts them again), and the record of the frame's calls starts anew
end_frame ==
    /\ phase = "End"
    /\ buffers' = {}
    /\ phase' = "Main"
    /\ done' = {}
    /\ calls' = NoCalls
    /\ UNCHANGED << envVars, extracted_shaders, invalidated_images, prepared_images,
                    prepared_shaders, prepare_next_frame, shader_queue, graph_nodes, app >>

\* ------------------------------------------------------------------ ComputeShaderPlugin

\* the shader types the application registers, and what S::shader() can return
ShaderTypes == {"S", "T"}
ShaderRefs == {"Default", "Handle", "Path"}

\* RenderGraph::add_node: the node stored under the label, replacing any node there
AddNode(nodes, label, shader_type) ==
    Insert(nodes, label, [shader |-> shader_type, state |-> "Loading"])

\* the label ComputeShaderPlugin::<S>::build gives the node of shader type S
NodeLabel(shader_type) == "UserCs"

\* ComputeShaderPlugin::<S>::build, called when the plugin is added.
\* add_node_edge refuses an edge the graph already holds: `refused` is whether
\* the host then fails (the documented panic of the plugin).
build(shader_type) ==
    /\ app.stage = "build"
    /\ shader_type \notin Range(app.plugins)
    /\ IF app.render_app
       THEN LET edge == <<NodeLabel(shader_type), "CameraDriverLabel">> IN
            /\ graph_nodes' = AddNode(graph_nodes, NodeLabel(shader_type), shader_type)
            /\ \E refused \in BOOLEAN :
                 /\ refused => edge \in app.camera_driver_inputs
                 /\ app' = [app EXCEPT
                      !.plugins = Append(@, shader_type),
                      !.assets = @ \cup {shader_type},
                      !.resources = @ \cup {shader_type},
                      !.systems = @ \cup {shader_type},
                      !.camera_driver_inputs = @ \cup {edge},
                      !.stage = IF refused THEN "panicked" ELSE @]
       ELSE \* warn!("Can't build ComputeShaderPlugin: RenderApp sub app not found.")
            /\ app' = [app EXCEPT !.plugins = Append(@, shader_type),
                                  !.assets = @ \cup {shader_type}]
            /\ UNCHANGED graph_nodes
    /\ UNCHANGED << envVars, renderVars, phase, done, calls >>

\* a from_world that queues a pipeline whatever shader() returns
from_worldAcceptsDefault(shader_ref) == "queued"

\* ComputeShaderPipeline::<S>::from_world: "panic", or the pipeline is queued
from_world(shader_ref) == IF shader_ref = "Default" THEN "panic" ELSE "queued"

\* ComputeShaderPlugin::<S>::finish of the next plugin, in the order they were added
finish ==
    /\ app.stage = "finish"
    /\ app.finished < Len(app.plugins)
    /\ LET shader_type == app.plugins[app.finished + 1] IN
       IF app.render_app /\ shader_type \notin app.pipelines
       THEN IF from_world(app.shader_ref[shader_type]) = "panic"
            THEN app' = [app EXCEPT !.stage = "panicked"]
            ELSE app' = [app EXCEPT !.pipelines = @ \cup {shader_type},
                                    !.finished = @ + 1]
       ELSE app' = [app EXCEPT !.finished = @ + 1]
    /\ UNCHANGED << envVars, renderVars, graph_nodes, phase, done, calls >>

\* the host: the render plugin adds the render sub app; App::run finishes the
\* plugins and then starts the frames
add_render_app ==
    /\ app.stage = "build"
    /\ ~app.render_app
    /\ app' = [app EXCEPT !.render_app = TRUE]
    /\ UNCHANGED << envVars, renderVars, graph_nodes, phase, done, calls >>

app_finish ==
    /\ app.stage = "build"
    /\ app' = [app EXCEPT !.stage = "finish"]
    /\ UNCHANGED << envVars, renderVars, graph_nodes, phase, done, calls >>

app_run ==
    /\ app.stage = "finish"
    /\ app.finished = Len(app.plugins)
    /\ app' = [app EXCEPT !.stage = "running"]
    /\ UNCHANGED << envVars, renderVars, graph_nodes, phase, done, calls >>

\* ------------------------------------------------------------------ the environment

\* an entity gets a pixel buffer sprite and a shader handle
Attach(e, image, shader) ==
    /\ phase = "Main"
    /\ attached' = Insert(attached, e, [image |-> image, shader |-> shader])
    /\ attached' # attached
    /\ history' = [history EXCEPT !.attached = @ \cup {image}]
    /\ UNCHANGED << shader_assets, shader_events, image_events, images, dep_ready,
                    pipeline_state, renderVars, graph_nodes, app, phase, done, calls >>

Detach(e) ==
    /\ phase = "Main"
    /\ e \in DOMAIN attached
    /\ attached' = Restrict(attached, (DOMAIN attached) \ {e})
    /\ UNCHANGED << shader_assets, shader_events, image_events, images, dep_ready,
                    pipeline_state, renderVars, graph_nodes, app, phase, done, calls, history >>

\* Assets<S>::insert: Added for a new identity, Modified for a known one
AssetInsert(id, value) ==
    /\ phase = "Main"
    /\ Len(shader_events) < MaxEvents
    /\ Len(prepare_next_frame) + Len(shader_events) < MaxQueue
    /\ shader_assets' = Insert(shader_assets, id, value)
    /\ shader_events' = Append(shader_events,
          [kind |-> IF id \in DOMAIN shader_assets THEN "Modified" ELSE "Added", id |-> id])
    /\ UNCHANGED << attached, image_events, images, dep_ready, pipeline_state, renderVars,
                    graph_nodes, app, phase, done, calls, history >>

\* the asset server finished loading the asset and its dependencies
AssetLoaded(id) ==
    /\ phase = "Main"
    /\ Len(shader_events) < MaxEvents
    /\ Len(prepare_next_frame) + Len(shader_events) < MaxQueue
    /\ id \in DOMAIN shader_assets
    /\ shader_events' = Append(shader_events, [kind |-> "LoadedWithDependencies", id |-> id])
    /\ UNCHANGED << attached, shader_assets, image_events, images, dep_ready,
                    pipeline_state, renderVars, graph_nodes, app, phase, done, calls, history >>

\* Assets<S>::remove (Removed), or the last strong handle dropped (Unused)
AssetRemove(id, kind) ==
    /\ phase = "Main"
    /\ Len(shader_events) < MaxEvents
    /\ id \in DOMAIN shader_assets
    /\ shader_assets' = Restrict(shader_assets, (DOMAIN shader_assets) \ {id})
    /\ shader_events' = Append(shader_events, [kind |-> kind, id |-> id])
    /\ UNCHANGED << attached, image_events, images, dep_ready, pipeline_state, renderVars,
                    graph_nodes, app, phase, done, calls, history >>

\* the image asset store reports an event for a target image
ImageEvent(kind, id) ==
    /\ phase = "Main"
    /\ Len(image_events) < MaxImageEvents
    /\ image_events' = Append(image_events, [kind |-> kind, id |-> id])
    /\ UNCHANGED << attached, shader_assets, shader_events, images, dep_ready,
                    pipeline_state, renderVars, graph_nodes, app, phase, done, calls, history >>

GpuImage(id, size) == [texture_view |-> <<id, size>>, size |-> size]

\* the host uploads, replaces or drops the GPU image of a target
GpuImageSet(id, size) ==
    /\ phase = "Main"
    /\ images' = Insert(images, id, GpuImage(id, size))
    /\ images' # images
    /\ UNCHANGED << attached, shader_assets, shader_events, image_events, dep_ready,
                    pipeline_state, renderVars, graph_nodes, app, phase, done, calls, history >>

GpuImageDrop(id) ==
    /\ phase = "Main"
    /\ id \in DOMAIN images
    /\ images' = Restrict(images, (DOMAIN images) \ {id})
    /\ UNCHANGED << attached, shader_assets, shader_events, image_events, dep_ready,
                    pipeline_state, renderVars, graph_nodes, app, phase, done, calls, history >>

\* the image asset changes (a first upload, a resize, new pixel data): the host
\* reports Added or Modified and the render world holds the new GPU image
ImageChange(id, size) ==
    /\ phase = "Main"
    /\ Len(image_events) < MaxImageEvents
    /\ images' = Insert(images, id, GpuImage(id, size))
    /\ images' # images
    /\ image_events' = Append(image_events,
          [kind |-> IF id \in DOMAIN images THEN "Modified" ELSE "Added", id |-> id])
    /\ UNCHANGED << attached, shader_assets, shader_events, dep_ready, pipeline_state,
                    renderVars, graph_nodes, app, phase, done, calls, history >>

\* the GPU image a "dep" shader value binds becomes available, or is dropped
DepChange ==
    /\ phase = "Main"
    /\ dep_ready' = ~dep_ready
    /\ UNCHANGED << attached, shader_assets, shader_events, image_events, images,
                    pipeline_state, renderVars, graph_nodes, app, phase, done, calls, history >>

\* the pipeline cache processes (or re-queues) the compute pipeline
PipelineStates == {"Queued", "Creating", "Ok", "Err"}
PipelineChange(s) ==
    /\ phase = "Main"
    /\ s # pipeline_state
    /\ pipeline_state' = s
    /\ UNCHANGED << attached, shader_assets, shader_events, image_events, images,
                    dep_ready, renderVars, graph_nodes, app, phase, done, calls, history >>

\* ------------------------------------------------------------------ specification

\* the render world after ComputeShaderPlugin::<S> was built and finished
InitRender ==
    /\ buffers = {}
    /\ extracted_shaders = [extracted |-> <<>>, removed |-> <<>>]
    /\ invalidated_images = {}
    /\ prepared_images = EmptyMap
    /\ prepared_shaders = EmptyMap
    /\ prepare_next_frame = <<>>
    /\ shader_queue = <<>>
    /\ graph_nodes = ("UserCs" :> [shader |-> "S", state |-> "Loading"])
    /\ app = [stage |-> "running", render_app |-> TRUE,
              shader_ref |-> [t \in ShaderTypes |-> "Path"],
              plugins |-> <<"S">>, finished |-> 1, assets |-> {"S"}, resources |-> {"S"},
              systems |-> {"S"}, pipelines |-> {"S"},
              camera_driver_inputs |-> {<<"UserCs", "CameraDriverLabel">>}]
    /\ phase = "Main"
    /\ done = {}
    /\ calls = NoCalls

\* one pixel buffer with an uploaded image and a shader handle; no shader asset
\* stored yet
InitBuffer ==
    /\ InitRender
    /\ attached = ("e1" :> [image |-> "A", shader |-> "x"])
    /\ history = [attached |-> {"A"}, failed |-> {}]
    /\ images = ("A" :> GpuImage("A", <<256, 256>>))
    /\ image_events = <<>>
    /\ shader_assets = EmptyMap
    /\ shader_events = <<>>
    /\ dep_ready = FALSE

\* the pipeline queued for compilation
Init == InitBuffer /\ pipeline_state = "Queued"

\* the pipeline compiled
InitShaders == InitBuffer /\ pipeline_state = "Ok"

\* a shader asset just added and the pipeline compiled; no pixel buffer spawned yet
InitImages ==
    /\ InitRender
    /\ attached = EmptyMap
    /\ history = [attached |-> {}, failed |-> {}]
    /\ images = EmptyMap
    /\ image_events = <<>>
    /\ shader_assets = ("x" :> "plain")
    /\ shader_events = << [kind |-> "Added", id |-> "x"] >>
    /\ dep_ready = FALSE
    /\ pipeline_state = "Ok"

Frame ==
    \/ cs_extract
    \/ prepare_images
    \/ prepare_shaders
    \/ cs_queue_bind_group
    \/ update
    \/ run
    \/ end_frame

ImageEnv ==
    \/ \E e \in Entities, image \in ImageIds : Attach(e, image, "x")
    \/ \E e \in Entities : Detach(e)
    \/ \E kind \in EventKinds, id \in ImageIds : ImageEvent(kind, id)
    \/ \E id \in ImageIds, size \in Sizes : GpuImageSet(id, size)
    \/ \E id \in ImageIds : GpuImageDrop(id)

ShaderEnv ==
    \/ \E id \in ShaderIds, value \in ShaderValues : AssetInsert(id, value)
    \/ \E id \in ShaderIds : AssetLoaded(id)
    \/ \E id \in ShaderIds, kind \in RemovedKinds : AssetRemove(id, kind)
    \/ DepChange

\* pixel buffers attached and detached, and target images whose every change
\* is reported by an event
ResizeEnv ==
    \/ \E e \in Entities, image \in ImageIds : Attach(e, image, "x")
    \/ \E e \in Entities : Detach(e)
    \/ \E id \in ImageIds, size \in Sizes : ImageChange(id, size)

PipelineEnv == \E s \in PipelineStates : PipelineChange(s)

\* the frames under a pipeline cache that compiles, fails or re-queues the
\* pipeline, with one shader asset changing value and a second pixel buffer
\* spawned on the same target
Next ==
    \/ Frame
    \/ PipelineEnv
    \/ \E value \in ShaderValues : AssetInsert("x", value)
    \/ DepChange
    \/ Attach("e2", "A", "x")
Spec == Init /\ [][Next]_vars

\* the frames under shader assets that are stored, changed, loaded and removed
NextShaders == Frame \/ ShaderEnv
SpecShaders == InitShaders /\ [][NextShaders]_vars

\* the frames under pixel buffers that are attached and detached and target
\* images that change, are uploaded and dropped
NextImages == Frame \/ ImageEnv
SpecImages == InitImages /\ [][NextImages]_vars

\* the frames under pixel buffers that are attached and detached and target
\* images that are uploaded and resized, each change with its event
NextResize == Frame \/ ResizeEnv
SpecResize == InitImages /\ [][NextResize]_vars

\* the application before any plugin is added: whether the render sub app is
\* there already, and what each shader type's shader() returns
InitPlugin ==
    /\ \E refs \in [ShaderTypes -> ShaderRefs] :
         app = [stage |-> "build", render_app |-> FALSE, shader_ref |-> refs,
                plugins |-> <<>>, finished |-> 0, assets |-> {}, resources |-> {},
                systems |-> {}, pipelines |-> {}, camera_driver_inputs |-> {}]
    /\ graph_nodes = EmptyMap
    /\ buffers = {}
    /\ extracted_shaders = [extracted |-> <<>>, removed |-> <<>>]
    /\ invalidated_images = {}
    /\ prepared_images = EmptyMap
    /\ prepared_shaders = EmptyMap
    /\ prepare_next_frame = <<>>
    /\ shader_queue = <<>>
    /\ phase = "Main"
    /\ done = {}
    /\ calls = NoCalls
    /\ attached = EmptyMap
    /\ history = [attached |-> {}, failed |-> {}]
    /\ images = EmptyMap
    /\ image_events = <<>>
    /\ shader_assets = EmptyMap
    /\ shader_events = <<>>
    /\ dep_ready = FALSE
    /\ pipeline_state = "Queued"

NextPlugin ==
    \/ \E shader_type \in ShaderTypes : build(shader_type)
    \/ finish
    \/ add_render_app
    \/ app_finish
    \/ app_run

SpecPlugin == InitPlugin /\ [][NextPlugin]_vars

\* ------------------------------------------------------------------ properties

NodeStates == {graph_nodes[l].state : l \in DOMAIN graph_nodes}

\* C1: the node starts as Loading; its state changes only in update, from
\* Loading to Update (the spec's Ready), when the pipeline cache reports Ok, and
\* it does change at the first such update; from Update it never changes again,
\* whatever the pipeline cache reports.
C1_Step ==
    \A l \in DOMAIN graph_nodes :
        LET old == graph_nodes[l].state
            new == graph_nodes'[l].state
        IN /\ old = "Update" => new = "Update"
           /\ old # new => /\ old = "Loading" /\ new = "Update"
                           /\ phase = "Update" /\ phase' = "Run"
                           /\ pipeline_state = "Ok"
           /\ (old = "Loading" /\ phase = "Update" /\ phase' = "Run"
                 /\ pipeline_state = "Ok") => new = "Update"
C1_LoadingToReadyOnce ==
    /\ NodeStates = {"Loading"}
    /\ [][C1_Step]_vars

\* C1 witness: the node is Ready after an update in which the pipeline cache no
\* longer reports the pipeline as compiled
C1_Witness ==
    /\ phase = "Run"
    /\ NodeStates = {"Update"}
    /\ pipeline_state # "Ok"

\* C2: after run, in a frame whose node state is Loading nothing was
\* dispatched, no error was logged and run returned Ok; anything dispatched
\* was dispatched with the node state Update (Ready).
C2_NoDispatchWhileLoading ==
    phase = "End" =>
        /\ calls.run = "Ok"
        /\ "Loading" \in NodeStates =>
              calls.dispatched = <<>> /\ calls.run_errors = 0
        /\ calls.dispatched # <<>> => NodeStates = {"Update"}

\* C2 witness: run has returned in a Loading frame whose queue holds an entry
C2_Witness ==
    /\ phase = "End"
    /\ NodeStates = {"Loading"}
    /\ shader_queue # <<>>
    /\ calls.dispatched = <<>>

\* the texture pass of the frame has run
TexturePassDone == phase # "Main" /\ "images" \in done
\* the queue of the frame has been built
QueueBuilt == phase \in {"Update", "Run", "End"}
\* the targets whose image cs_extract saw reported as Removed in this frame
RemovedImages ==
    {ev.id : ev \in {e \in Range(calls.image_events) : e.kind = "Removed"}}
\* the targets the entries of the queue were built for
QueueTargets == {shader_queue[i].texture_bind_group[2][1] : i \in DOMAIN shader_queue}

\* C3 as claimed: a target whose image was reported removed in the frame has no
\* Prepared Texture Entry after the texture pass and no entry in the queue built
\* after it, whether or not a live triple references it.
C3_Original ==
    \A T \in RemovedImages :
        /\ TexturePassDone => T \notin DOMAIN prepared_images
        /\ QueueBuilt => T \notin QueueTargets

\* C3 amended: for a target of a live triple whose image was reported removed,
\* the texture pass evicts the entry it held; after the pass the target has an
\* entry only if its GPU image was resolvable in the pass, and then the entry
\* was built in that pass from that GPU image; with no resolvable GPU image it
\* has no entry and no entry in the queue.
C3_RemovedImageEvicted ==
    \A T \in RemovedImages \cap BufferImages(buffers) :
        TexturePassDone =>
            /\ T \in DOMAIN prepared_images =>
                  /\ T \in calls.built
                  /\ T \in DOMAIN images
                  /\ prepared_images[T] = PreparedImage(images[T])
            /\ T \notin DOMAIN images =>
                  /\ T \notin DOMAIN prepared_images
                  /\ QueueBuilt => T \notin QueueTargets

\* C3 witness: the entry of a live target reported removed was evicted and,
\* its GPU image being gone, not built again
C3_Witness ==
    /\ QueueBuilt
    /\ \E T \in RemovedImages \cap BufferImages(buffers) :
          T \in calls.evicted /\ T \notin DOMAIN prepared_images

\* C7 as claimed: after the texture pass every key of the Prepared Texture
\* Entries is a target of a live triple of the frame.
C7_Original ==
    TexturePassDone => (DOMAIN prepared_images) \subseteq BufferImages(buffers)

\* C8: an entry for a target appears only in a texture pass in which the target
\* belongs to a live triple, and no target that was never attached together
\* with a shader handle has an entry.
C8_Step ==
    \A T \in ImageIds :
        (T \in DOMAIN prepared_images' /\ T \notin DOMAIN prepared_images) =>
            /\ phase = "Prepare" /\ "images" \notin done /\ "images" \in done'
            /\ T \in BufferImages(buffers)
C8_NoImplicitRegistration ==
    /\ [](DOMAIN prepared_images \subseteq history.attached)
    /\ [][C8_Step]_vars

\* C8 witness: a texture pass built an entry while the GPU image of a target
\* that was never attached is resolvable, and that target has no entry
C8_Witness ==
    /\ TexturePassDone
    /\ calls.built # {}
    /\ \E T \in DOMAIN images : T \notin history.attached /\ T \notin DOMAIN prepared_images

\* the shader pass of the frame is the step being taken, or has run
ShaderPassStep == phase = "Prepare" /\ "shaders" \notin done /\ "shaders" \in done'
ShaderPassDone == phase # "Main" /\ "shaders" \in done
\* cs_extract has run and the shader pass has not consumed its lists yet
ExtractDone == phase = "Prepare" /\ "shaders" \notin done
Ids(pairs) == {pairs[i][1] : i \in DOMAIN pairs}
\* the kinds of the shader events cs_extract read in this frame for an identity
EventKindsOf(id) == {ev.kind : ev \in {e \in Range(calls.shader_events) : e.id = id}}
LastKindOf(id) ==
    LET at == {i \in DOMAIN calls.shader_events : calls.shader_events[i].id = id}
        last == CHOOSE i \in at : \A j \in at : j <= i
    IN calls.shader_events[last].kind

\* C4 as claimed: after a shader pass in which the binding of an asset failed
\* with RetryNextUpdate (frames N..N+k-1) the identity has no Prepared Shader
\* Entry, and after the pass in which the retry binds (frame N+k) it has one.
C4_Original ==
    ShaderPassDone =>
        \A a \in Range(calls.attempts) :
            /\ a.result = "RetryNextUpdate" => a.id \notin DOMAIN prepared_shaders
            /\ (a.from = "queued" /\ a.result = "Ok") => a.id \in DOMAIN prepared_shaders

\* C4 amended: a snapshot whose binding fails with RetryNextUpdate is put on
\* the retry queue and that attempt creates no entry: after the pass the
\* identity has an entry only if it had one before the pass and was not
\* reported removed, or another snapshot of it bound in the pass. A retry that
\* binds leaves the identity with an entry unless the identity is reported
\* removed in that frame.
C4_Step ==
    ShaderPassStep =>
        \A a \in Range(calls'.attempts) :
            /\ a.result = "RetryNextUpdate" =>
                  /\ <<a.id, a.shader>> \in Range(prepare_next_frame')
                  /\ a.id \in DOMAIN prepared_shaders' =>
                        \/ a.id \in (DOMAIN prepared_shaders)
                                      \ Range(extracted_shaders.removed)
                        \/ \E b \in Range(calls'.attempts) :
                              b.id = a.id /\ b.result = "Ok"
            /\ (a.from = "queued" /\ a.result = "Ok"
                  /\ a.id \notin Range(extracted_shaders.removed)) =>
                  a.id \in DOMAIN prepared_shaders'
C4_RetryLiveness == [][C4_Step]_vars

\* C4 witness: a retry from the queue bound, and the entry is the bind group
\* built from the queued snapshot
C4_Witness ==
    /\ ShaderPassDone
    /\ \E a \in Range(calls.attempts) :
          /\ a.from = "queued" /\ a.result = "Ok"
          /\ a.id \in DOMAIN prepared_shaders
          /\ prepared_shaders[a.id].user_bind_group = <<"user", a.shader>>

\* C5 as claimed: an identity whose latest extracted snapshot failed with
\* InvalidSamplerType has no Prepared Shader Entry, and so no entry in the
\* queue, until a changed event for it is extracted again.
C5_Original ==
    /\ \A id \in history.failed : id \notin DOMAIN prepared_shaders
    /\ (QueueBuilt /\ \A b \in buffers : b.shader \in history.failed) => shader_queue = <<>>

\* C6 as claimed: an entry whose identity has no event in the frame is kept by
\* the shader pass as it is, and no bind group is built for the identity.
C6_OriginalStep ==
    ShaderPassStep =>
        \A id \in DOMAIN prepared_shaders :
            EventKindsOf(id) = {} =>
                /\ id \in DOMAIN prepared_shaders'
                /\ prepared_shaders'[id] = prepared_shaders[id]
                /\ \A a \in Range(calls'.attempts) : a.id = id => a.result # "Ok"
C6_Original == [][C6_OriginalStep]_vars

\* C6 amended: the same, for an identity that has no snapshot waiting in the
\* retry queue either.
C6_Step ==
    ShaderPassStep =>
        \A id \in (DOMAIN prepared_shaders) \ Ids(prepare_next_frame) :
            EventKindsOf(id) = {} =>
                /\ id \in DOMAIN prepared_shaders'
                /\ prepared_shaders'[id] = prepared_shaders[id]
                /\ \A a \in Range(calls'.attempts) : a.id # id
C6_UnchangedEntryReused == [][C6_Step]_vars

\* C6 witness: after a shader pass that made attempts, an identity with no
\* event and no attempt in the frame has its entry
C6_Witness ==
    /\ ShaderPassDone
    /\ calls.attempts # <<>>
    /\ \E id \in DOMAIN prepared_shaders :
          /\ EventKindsOf(id) = {}
          /\ \A a \in Range(calls.attempts) : a.id # id

\* C9 as claimed: an identity with a changed and a removed event among the
\* events read in the frame, in either order, is not extracted as changed and
\* is in the removed list.
C9_Original ==
    ExtractDone =>
        \A id \in ShaderIds :
            (EventKindsOf(id) \cap ChangedKinds # {} /\ EventKindsOf(id) \cap RemovedKinds # {}) =>
                /\ id \notin Ids(extracted_shaders.extracted)
                /\ id \in Range(extracted_shaders.removed)

\* C9 amended: such an identity is in the removed list; it is not extracted as
\* changed when its last event is the removal, and it is extracted as changed
\* when a changed event follows its last removal and the asset is still stored.
C9_LastEventWins ==
    ExtractDone =>
        \A id \in ShaderIds :
            (EventKindsOf(id) \cap ChangedKinds # {} /\ EventKindsOf(id) \cap RemovedKinds # {}) =>
                /\ id \in Range(extracted_shaders.removed)
                /\ LastKindOf(id) \in RemovedKinds => id \notin Ids(extracted_shaders.extracted)
                /\ (LastKindOf(id) \in ChangedKinds /\ id \in DOMAIN shader_assets) =>
                      id \in Ids(extracted_shaders.extracted)

\* C9 witness: an identity was changed and then removed in the frame
C9_Witness ==
    /\ ExtractDone
    /\ \E id \in ShaderIds :
          /\ EventKindsOf(id) \cap ChangedKinds # {}
          /\ LastKindOf(id) \in RemovedKinds
          /\ id \in Range(extracted_shaders.removed)

\* C10 as claimed: every shader type whose systems were added has a node of
\* its own in the render graph.
C10_Original ==
    \A shader_type \in app.systems :
        \E l \in DOMAIN graph_nodes : graph_nodes[l].shader = shader_type

\* C11: every dispatch of run has the extents (size.x / 8, size.y / 8, 1),
\* truncated, of the size recorded in the Prepared Texture Entry whose bind
\* group it binds: (32, 32, 1) for 256x256, (2, 1, 1) for 20x12.
C11_DispatchExtents ==
    phase = "End" =>
        \A d \in Range(calls.dispatched) :
            \E T \in DOMAIN prepared_images :
                LET size == prepared_images[T].size IN
                /\ d.texture_bind_group = prepared_images[T].texture_bind_group
                /\ \E qx \in 0..size[1], qy \in 0..size[2] :
                      /\ 8 * qx <= size[1] /\ size[1] < 8 * (qx + 1)
                      /\ 8 * qy <= size[2] /\ size[2] < 8 * (qy + 1)
                      /\ d.workgroups = <<qx, qy, 1>>
                /\ size = <<256, 256>> => d.workgroups = <<32, 32, 1>>
                /\ size = <<20, 12>> => d.workgroups = <<2, 1, 1>>

\* C11 witness: a target whose size is not a multiple of 8 was dispatched
C11_Witness ==
    /\ phase = "End"
    /\ \E d \in Range(calls.dispatched) : d.workgroups = <<2, 1, 1>>
    /\ \E d \in Range(calls.dispatched) : d.workgroups = <<32, 32, 1>>

\* the identities whose last event read in the frame is a changed event
ChangedThisFrame ==
    {id \in ShaderIds : EventKindsOf(id) # {} /\ LastKindOf(id) \in ChangedKinds}

\* C12: whatever the node state, after the shader pass an asset changed in the
\* frame was attempted with its new value and, when the binding succeeded, has
\* the entry built from that value; and a frame whose node state is Loading
\* ends with no dispatch.
C12_PreparationIgnoresNodeState ==
    /\ ShaderPassDone =>
          \A id \in ChangedThisFrame \cap DOMAIN shader_assets :
              /\ \E a \in Range(calls.attempts) :
                    a.id = id /\ a.from = "extracted" /\ a.shader = shader_assets[id]
              /\ (\A a \in Range(calls.attempts) :
                     (a.id = id /\ a.from = "extracted") => a.result = "Ok") =>
                    /\ id \in DOMAIN prepared_shaders
                    /\ prepared_shaders[id].user_bind_group = <<"user", shader_assets[id]>>
    /\ (phase = "End" /\ "Loading" \in NodeStates) => calls.dispatched = <<>>

\* C12 witness: in a Loading frame a modified asset got the entry of its new
\* value, the queue holds its bind group, and run dispatched nothing
C12_Witness ==
    /\ phase = "End"
    /\ NodeStates = {"Loading"}
    /\ \E id \in ChangedThisFrame :
          /\ "Modified" \in EventKindsOf(id)
          /\ id \in DOMAIN prepared_shaders
          /\ prepared_shaders[id].user_bind_group = <<"user", shader_assets[id]>>
          /\ \E i \in DOMAIN shader_queue :
                shader_queue[i].user_bind_group = <<"user", shader_assets[id]>>
    /\ calls.dispatched = <<>>

\* the shader types registered whose shader() is ShaderRef::Default
DefaultPlugins == {t \in Range(app.plugins) : app.shader_ref[t] = "Default"}

C13_Step ==
    (/\ app.stage = "finish" /\ app.render_app
     /\ app.finished < Len(app.plugins)
     /\ app.plugins[app.finished + 1] \in DefaultPlugins
     /\ app' # app) => app'.stage = "panicked"
AttemptsFrom(attempts, from) ==
    LET sel == SelectSeq(attempts, LAMBDA a : a.from = from)
    IN [i \in DOMAIN sel |-> <<sel[i].id, sel[i].shader>>]
\* the pairs of a pass whose attempt asked for a retry, in the order of the attempts
Requeued(attempts) ==
    LET sel == SelectSeq(attempts, LAMBDA a : a.result = "RetryNextUpdate")
    IN [i \in DOMAIN sel |-> <<sel[i].id, sel[i].shader>>]

\* C14: a shader pass attempts the queued pairs in the order of the queue, then
\* the extracted pairs in their order; the new queue holds the renewed failures
\* of the queue, in the same relative order, followed by the failures of the
\* extracted pairs; the removals are applied between the two: a removed
\* identity has an entry after the pass exactly when an extracted pair of it
\* bound in the pass.
C14_Step ==
    ShaderPassStep =>
        LET attempts == calls'.attempts
            nq == Len(prepare_next_frame)
        IN /\ AttemptsFrom(attempts, "queued") = prepare_next_frame
           /\ AttemptsFrom(attempts, "extracted") = extracted_shaders.extracted
           /\ \A i \in DOMAIN attempts : attempts[i].from = "queued" <=> i <= nq
           /\ prepare_next_frame' = Requeued(attempts)
           /\ \A id \in Range(extracted_shaders.removed) :
                 id \in DOMAIN prepared_shaders' <=>
                    \E a \in Range(attempts) :
                        a.id = id /\ a.from = "extracted" /\ a.result = "Ok"
C14_ShaderPassOrder == [][C14_Step]_vars

\* C14 witness: a pass re-queued a pair of the old queue and queued a new
\* failure behind it
C14_Witness ==
    /\ ShaderPassDone
    /\ Len(prepare_next_frame) = 2
    /\ \E i, j \in DOMAIN calls.attempts :
          /\ calls.attempts[i].from = "queued" /\ calls.attempts[j].from = "extracted"
          /\ prepare_next_frame[1] = <<calls.attempts[i].id, calls.attempts[i].shader>>
          /\ prepare_next_frame[2] = <<calls.attempts[j].id, calls.attempts[j].shader>>

\* the texture pass of the frame is the step being taken
TexturePassStep == phase = "Prepare" /\ "images" \notin done /\ "images" \in done'

\* C15: whichever of the two passes runs first, the texture pass leaves the
\* shader cache, the retry queue and the extracted shaders alone and the shader
\* pass leaves the texture cache, the invalidated set, the buffers and the GPU
\* images alone, and each pass's result is the same function of what the other
\* pass leaves alone: the two orders give the same caches and retry queue.
C15_Step ==
    /\ TexturePassStep =>
          /\ UNCHANGED << prepared_shaders, prepare_next_frame, extracted_shaders, dep_ready >>
          /\ LET buffer_images == BufferImages(buffers) IN
             prepared_images' =
                RemoveUntracked(
                    PrepareMissing(RemoveInvalid(prepared_images, invalidated_images),
                                   buffer_images, images),
                    buffer_images)
    /\ ShaderPassStep =>
          /\ UNCHANGED << prepared_images, invalidated_images, buffers, images >>
          /\ LET st == PrepareShaders(prepare_next_frame, extracted_shaders,
                                      prepared_shaders, dep_ready)
             IN /\ prepared_shaders' = st.materials
                /\ prepare_next_frame' = st.next
C15_PassesCommute == [][C15_Step]_vars

\* C15 witness: both passes have run in a frame in which the texture pass built
\* an entry and the shader pass bound an asset
C15_Witness ==
    /\ phase = "Prepare"
    /\ done = {"images", "shaders"}
    /\ calls.built # {}
    /\ \E a \in Range(calls.attempts) : a.result = "Ok"

\* C16 as claimed: after every texture pass a target of a live triple has a
\* Prepared Texture Entry exactly when its GPU image is resolvable.
C16_Original ==
    TexturePassDone =>
        \A T \in BufferImages(buffers) :
            T \in DOMAIN prepared_images <=> T \in DOMAIN images

\* the buffers of the frame whose target and shader asset both have an entry
Joined ==
    {b \in buffers : b.image \in DOMAIN prepared_images /\ b.shader \in DOMAIN prepared_shaders}
\* the entry the join gives for a buffer
JoinEntry(b) ==
    [texture_bind_group |-> prepared_images[b.image].texture_bind_group,
     user_bind_group |-> prepared_shaders[b.shader].user_bind_group]
\* an entry of the queue or a dispatch, without its workgroups
BindGroups(entry) ==
    [texture_bind_group |-> entry.texture_bind_group,
     user_bind_group |-> entry.user_bind_group]

\* C17: the queue built in a frame holds, for every pair of bind groups, as many
\* entries as there are live triples of the frame whose target and shader asset
\* have the entries with those bind groups, and nothing else; what run
\* dispatches are entries of that queue.
C17_QueueIsJoin ==
    /\ QueueBuilt =>
          /\ Len(shader_queue) = Cardinality(Joined)
          /\ \A i \in DOMAIN shader_queue :
                Cardinality({j \in DOMAIN shader_queue :
                                BindGroups(shader_queue[j]) = BindGroups(shader_queue[i])})
                  = Cardinality({b \in Joined : JoinEntry(b) = BindGroups(shader_queue[i])})
          /\ \A b \in Joined :
                \E i \in DOMAIN shader_queue : BindGroups(shader_queue[i]) = JoinEntry(b)
    /\ phase = "End" =>
          \A d \in Range(calls.dispatched) :
              \E i \in DOMAIN shader_queue : BindGroups(shader_queue[i]) = BindGroups(d)

\* C17 witness: of two live triples one has both entries and one does not; the
\* queue holds the one entry and run dispatched it
C17_Witness ==
    /\ phase = "End"
    /\ Cardinality(buffers) = 2
    /\ Cardinality(Joined) = 1
    /\ Len(shader_queue) = 1
    /\ Len(calls.dispatched) = 1

\* C18: after a run with the node state Update (Ready), run returned Ok; when
\* the pipeline was retrievable every entry of the queue was dispatched once,
\* in order, with its bind groups, and no error was logged; when it was not,
\* nothing was dispatched and one error was logged for every entry of the queue.
C18_RunPerEntry ==
    (phase = "End" /\ NodeStates = {"Update"}) =>
        /\ calls.run = "Ok"
        /\ Len(calls.dispatched) + calls.run_errors = Len(shader_queue)
        /\ pipeline_state = "Ok" =>
              /\ calls.run_errors = 0
              /\ \A i \in DOMAIN shader_queue :
                    BindGroups(calls.dispatched[i]) = BindGroups(shader_queue[i])
        /\ pipeline_state # "Ok" =>
              /\ calls.dispatched = <<>>
              /\ calls.run_errors = Len(shader_queue)

\* C18 witness: a Ready node ran over a queue of two entries with the pipeline
\* not retrievable: both were skipped with an error
C18_Witness ==
    /\ phase = "End"
    /\ NodeStates = {"Update"}
    /\ pipeline_state # "Ok"
    /\ Len(shader_queue) = 2
    /\ calls.run_errors = 2
    /\ calls.run = "Ok"

\* C19: a texture pass keeps, as it is, every entry whose target is a target of
\* a live triple and is not in the frame's invalidated set, and builds no bind
\* group for it; when the live targets all have such an entry, the entries of
\* the targets no live triple references are pruned.
C19_Step ==
    TexturePassStep =>
        LET live == BufferImages(buffers)
            kept == ((DOMAIN prepared_images) \cap live) \ invalidated_images
        IN /\ \A T \in kept :
                 /\ T \in DOMAIN prepared_images'
                 /\ prepared_images'[T] = prepared_images[T]
                 /\ T \notin calls'.built
           /\ (live # {} /\ kept = live) => DOMAIN prepared_images' = live
C19_LiveEntryUntouched == [][C19_Step]_vars

\* C19 witness: after a texture pass that built nothing, the one live target has
\* the entry of a GPU image the host has replaced since, and the other target,
\* attached before, has none
C19_Witness ==
    /\ TexturePassDone
    /\ calls.built = {} /\ calls.evicted = {}
    /\ history.attached = ImageIds
    /\ \E T \in ImageIds :
          /\ BufferImages(buffers) = {T}
          /\ DOMAIN prepared_images = {T}
          /\ T \in DOMAIN images
          /\ prepared_images[T].size # images[T].size

\* C20: in every shader pass each pair of the retry queue is attempted again;
\* a pair leaves the queue only when its attempt does not ask for a retry, and
\* every pair whose attempt asks for a retry, queued or newly extracted, is in
\* the queue at the end of the pass, as many times as it was attempted; the
\* identity of a queued pair that binds has an entry unless it is reported
\* removed in the frame.
C20_Step ==
    ShaderPassStep =>
        LET attempts == calls'.attempts IN
        /\ Len(AttemptsFrom(attempts, "queued")) = Len(prepare_next_frame)
        /\ \A i \in DOMAIN prepare_next_frame :
              /\ attempts[i].from = "queued"
              /\ <<attempts[i].id, attempts[i].shader>> = prepare_next_frame[i]
              /\ attempts[i].result = "Ok" =>
                    \/ attempts[i].id \in DOMAIN prepared_shaders'
                    \/ attempts[i].id \in Range(extracted_shaders.removed)
        /\ \A pair \in Range(prepare_next_frame) \cup Range(prepare_next_frame') :
              Cardinality({i \in DOMAIN prepare_next_frame' : prepare_next_frame'[i] = pair})
                = Cardinality({i \in DOMAIN attempts :
                      /\ <<attempts[i].id, attempts[i].shader>> = pair
                      /\ attempts[i].result = "RetryNextUpdate"})
        /\ \A a \in Range(attempts) :
              a.result = "RetryNextUpdate" => <<a.id, a.shader>> \in Range(prepare_next_frame')
C20_RetryNeverDropped == [][C20_Step]_vars

\* C20 witness: a pair was re-attempted from the queue, failed again and is in
\* the new queue, although its asset is no longer stored
C20_Witness ==
    /\ ShaderPassDone
    /\ \E a \in Range(calls.attempts) :
          /\ a.from = "queued" /\ a.result = "RetryNextUpdate"
          /\ <<a.id, a.shader>> \in Range(prepare_next_frame)
          /\ a.id \notin DOMAIN shader_assets

\* C21: from cs_extract to the end of the frame the invalidated set is the set
\* of the targets of the frame's live triples for which an Added, Modified,
\* Removed or LoadedWithDependencies image event was read in the frame; the
\* texture pass evicts entries of targets of live triples only.
C21_InvalidatedAreLive ==
    phase # "Main" =>
        /\ invalidated_images \subseteq BufferImages(buffers)
        /\ \A T \in BufferImages(buffers) :
              T \in invalidated_images <=>
                 \E ev \in Range(calls.image_events) :
                    /\ ev.id = T
                    /\ ev.kind \in {"Added", "Modified", "Removed", "LoadedWithDependencies"}
        /\ TexturePassDone => calls.evicted \subseteq BufferImages(buffers)

\* C21 witness: an image event was read for a target that has an entry and is
\* not the target of a live triple; nothing is invalidated and the texture pass
\* has evicted nothing
C21_Witness ==
    /\ TexturePassDone
    /\ buffers # {}
    /\ \E ev \in Range(calls.image_events) :
          /\ ev.kind \in {"Added", "Modified", "Removed", "LoadedWithDependencies"}
          /\ ev.id \notin BufferImages(buffers)
          /\ ev.id \in DOMAIN prepared_images
    /\ invalidated_images = {}
    /\ calls.evicted = {}

\* the identities whose last reported event is a removal: the store no longer
\* holds them (Assets::insert would report a changed event again)
RemovedShaders == ShaderIds \ DOMAIN shader_assets

\* C22 as claimed: after a shader pass, an identity reported removed and not
\* reported changed since has no Prepared Shader Entry.
C22_Original ==
    ShaderPassDone => \A id \in RemovedShaders : id \notin DOMAIN prepared_shaders

\* C23 as claimed: a shader pass in a frame without an event for an identity
\* never replaces an entry that was built from the value the store holds, the
\* latest snapshot, by a bind group built from another snapshot.
C23_OriginalStep ==
    ShaderPassStep =>
        \A id \in (DOMAIN prepared_shaders) \cap (DOMAIN shader_assets) :
            (/\ prepared_shaders[id].user_bind_group = <<"user", shader_assets[id]>>
             /\ EventKindsOf(id) = {}
             /\ id \in DOMAIN prepared_shaders') =>
                prepared_shaders'[id] = prepared_shaders[id]
C23_Original == [][C23_OriginalStep]_vars

\* C24 as claimed: every dispatch binds the texture view of the current GPU
\* image of its target, with the extents of that image's size.
C24_Original ==
    phase = "End" =>
        \A d \in Range(calls.dispatched) :
            LET T == d.texture_bind_group[2][1] IN
            /\ T \in DOMAIN images
            /\ d.texture_bind_group = <<"texture", images[T].texture_view>>
            /\ d.workgroups = <<images[T].size[1] \div 8, images[T].size[2] \div 8, 1>>

====
